---- MODULE Spec2Model ----
(***************************************************************************)
(* Model of the tabular pipeline of src/app.py (Sport_Dashboard_2025-26): *)
(* header normalisation (normalize_columns), the main dashboard           *)
(* aggregation (get_data), the staff aggregation (get_staff_data) and the  *)
(* facility utilisation report (get_operations_data).                     *)
(*                                                                        *)
(* Text is a sequence of one-character strings, so that strip / lower /   *)
(* title / substring tests are computed character by character.           *)
(* Numbers coming out of pd.to_numeric are kept in tenths (an integer n   *)
(* stands for the float n / 10), which is exact for the cells modelled.   *)
(***************************************************************************)
EXTENDS Integers, Sequences, FiniteSets, TLC

VARIABLES sheet, request, staffSheet, opsSheet, dfColumns, handler, response

vars == <<sheet, request, staffSheet, opsSheet, dfColumns, handler, response>>

(***************************************************************************)
(* Text primitives (Python str / pandas .str semantics)                   *)
(***************************************************************************)
UpperCase == <<"A","B","C","D","E","F","G","H","I","J","K","L","M",
               "N","O","P","Q","R","S","T","U","V","W","X","Y","Z">>

LowerCase == <<"a","b","c","d","e","f","g","h","i","j","k","l","m",
               "n","o","p","q","r","s","t","u","v","w","x","y","z">>

Digits == <<"0","1","2","3","4","5","6","7","8","9">>

\* Code-point order of the characters used (space < % < , < - < . < 0-9 < A-Z < a-z).
CodePoints == <<" ", "%", ",", "-", ".">> \o Digits \o UpperCase \o LowerCase

IndexIn(c, s) == CHOOSE i \in 1..Len(s) : s[i] = c

IsIn(c, s) == \E i \in 1..Len(s) : s[i] = c

IsCased(c) == IsIn(c, UpperCase) \/ IsIn(c, LowerCase)

ToLower(c) == IF IsIn(c, UpperCase) THEN LowerCase[IndexIn(c, UpperCase)] ELSE c

ToUpper(c) == IF IsIn(c, LowerCase) THEN UpperCase[IndexIn(c, LowerCase)] ELSE c

\* str.lower()
Lower(s) == [i \in 1..Len(s) |-> ToLower(s[i])]

\* str.title(): a cased character is upper-cased when it starts a run of
\* cased characters and lower-cased otherwise.
Title(s) ==
    [i \in 1..Len(s) |->
        IF ~IsCased(s[i]) THEN s[i]
        ELSE IF i > 1 /\ IsCased(s[i-1]) THEN ToLower(s[i]) ELSE ToUpper(s[i])]

RECURSIVE LStrip(_)
LStrip(s) == IF s # <<>> /\ Head(s) = " " THEN LStrip(Tail(s)) ELSE s

RECURSIVE RStrip(_)
RStrip(s) ==
    IF s # <<>> /\ s[Len(s)] = " " THEN RStrip(SubSeq(s, 1, Len(s) - 1)) ELSE s

\* str.strip()
Strip(s) == RStrip(LStrip(s))

\* Python's  sub in s
Contains(sub, s) ==
    \E i \in 1..(Len(s) - Len(sub) + 1) : SubSeq(s, i, i + Len(sub) - 1) = sub

\* Python's  a < b  on str: lexicographic by code point.
RECURSIVE StrLess(_, _)
StrLess(a, b) ==
    IF b = <<>> THEN FALSE
    ELSE IF a = <<>> THEN TRUE
    ELSE IF Head(a) = Head(b) THEN StrLess(Tail(a), Tail(b))
    ELSE IndexIn(Head(a), CodePoints) < IndexIn(Head(b), CodePoints)

(***************************************************************************)
(* normalize_columns                                                      *)
(***************************************************************************)
kw_name == <<"n","a","m","e">>
kw_student == <<"s","t","u","d","e","n","t">>
kw_department == <<"d","e","p","a","r","t","m","e","n","t">>
kw_school == <<"s","c","h","o","o","l">>
kw_dept == <<"d","e","p","t">>
kw_gender == <<"g","e","n","d","e","r">>
kw_sex == <<"s","e","x">>
kw_sport == <<"s","p","o","r","t">>
kw_game == <<"g","a","m","e">>
kw_point == <<"p","o","i","n","t">>
kw_sr == <<"s","r">>
kw_no == <<"n","o">>
kw_event == <<"e","v","e","n","t">>
kw_category == <<"c","a","t","e","g","o","r","y">>

NameCol == <<"N","a","m","e">>
DepartmentCol == <<"D","e","p","a","r","t","m","e","n","t">>
GenderCol == <<"G","e","n","d","e","r">>
SportCol == <<"S","p","o","r","t">>
PointsCol == <<"P","o","i","n","t","s">>
SrNoCol == <<"S","R","."," ","N","O">>
EventCol == <<"E","v","e","n","t">>

CanonicalCols ==
    {NameCol, DepartmentCol, GenderCol, SportCol, PointsCol, SrNoCol, EventCol}

\* Variant of Rename: the sport / game branch tried before the name branches.
RenameSportFirst(col) ==
    LET c_lower == Lower(col) IN
    IF Contains(kw_sport, c_lower) \/ Contains(kw_game, c_lower) THEN SportCol
    ELSE IF Contains(kw_name, c_lower) /\ Contains(kw_student, c_lower) THEN NameCol
    ELSE IF Contains(kw_name, c_lower) THEN NameCol
    ELSE IF Contains(kw_department, c_lower) \/ Contains(kw_school, c_lower)
            \/ Contains(kw_dept, c_lower) THEN DepartmentCol
    ELSE IF Contains(kw_gender, c_lower) \/ Contains(kw_sex, c_lower) THEN GenderCol
    ELSE IF Contains(kw_point, c_lower) THEN PointsCol
    ELSE IF Contains(kw_sr, c_lower) /\ Contains(kw_no, c_lower) THEN SrNoCol
    ELSE IF Contains(kw_event, c_lower) \/ Contains(kw_category, c_lower) THEN EventCol
    ELSE col

\* Variant of Rename: the tests run on col itself, not on col.lower().
RenameCaseSensitive(col) ==
    LET c_lower == col IN
    IF Contains(kw_name, c_lower) /\ Contains(kw_student, c_lower) THEN NameCol
    ELSE IF Contains(kw_name, c_lower) THEN NameCol
    ELSE IF Contains(kw_department, c_lower) \/ Contains(kw_school, c_lower)
            \/ Contains(kw_dept, c_lower) THEN DepartmentCol
    ELSE IF Contains(kw_gender, c_lower) \/ Contains(kw_sex, c_lower) THEN GenderCol
    ELSE IF Contains(kw_sport, c_lower) \/ Contains(kw_game, c_lower) THEN SportCol
    ELSE IF Contains(kw_point, c_lower) THEN PointsCol
    ELSE IF Contains(kw_sr, c_lower) /\ Contains(kw_no, c_lower) THEN SrNoCol
    ELSE IF Contains(kw_event, c_lower) \/ Contains(kw_category, c_lower) THEN EventCol
    ELSE col

\* The if / elif chain of the loop body: the new name of (stripped) column col.
\* A column no branch matches gets no entry in new_cols and keeps its name.
Rename(col) ==
    LET c_lower == Lower(col) IN
    IF Contains(kw_name, c_lower) /\ Contains(kw_student, c_lower) THEN NameCol
    ELSE IF Contains(kw_name, c_lower) THEN NameCol
    ELSE IF Contains(kw_department, c_lower) \/ Contains(kw_school, c_lower)
            \/ Contains(kw_dept, c_lower) THEN DepartmentCol
    ELSE IF Contains(kw_gender, c_lower) \/ Contains(kw_sex, c_lower) THEN GenderCol
    ELSE IF Contains(kw_sport, c_lower) \/ Contains(kw_game, c_lower) THEN SportCol
    ELSE IF Contains(kw_point, c_lower) THEN PointsCol
    ELSE IF Contains(kw_sr, c_lower) /\ Contains(kw_no, c_lower) THEN SrNoCol
    ELSE IF Contains(kw_event, c_lower) \/ Contains(kw_category, c_lower) THEN EventCol
    ELSE col

\* df.columns = df.columns.str.strip(); return df.rename(columns=new_cols).
\* rename maps every column label through new_cols, duplicates included, and
\* neither drops nor adds a column.
normalize_columns(columns) ==
    [i \in 1..Len(columns) |-> Rename(Strip(columns[i]))]

(***************************************************************************)
(* pandas primitives                                                       *)
(***************************************************************************)
\* A DataFrame is [columns |-> set of labels, rows |-> sequence of rows], a
\* row being a function from column label to cell.
Column(rows, c) == [i \in 1..Len(rows) |-> rows[i][c]]

Values(s) == {s[i] : i \in 1..Len(s)}

\* df.empty: some axis has length 0.
DfEmpty(df) == Len(df.rows) = 0 \/ df.columns = {}

RECURSIVE SumSeq(_)
SumSeq(s) == IF s = <<>> THEN 0 ELSE Head(s) + SumSeq(Tail(s))

\* The distinct values of s in order of first appearance (the order the
\* hash table of value_counts yields them in).
RECURSIVE Unique(_)
Unique(s) ==
    IF s = <<>> THEN <<>>
    ELSE LET init == Unique(SubSeq(s, 1, Len(s) - 1)) IN
         IF s[Len(s)] \in Values(init) THEN init ELSE Append(init, s[Len(s)])

Count(s, v) == Cardinality({i \in 1..Len(s) : s[i] = v})

\* The keys of a groupby / the labels of a pivot axis: sorted ascending.
RECURSIVE SortedKeys(_)
SortedKeys(S) ==
    IF S = {} THEN <<>>
    ELSE LET m == CHOOSE x \in S : \A y \in S \ {x} : StrLess(x, y) IN
         <<m>> \o SortedKeys(S \ {m})

\* sort_values(ascending=False) on a sequence of <<label, number>> pairs.
\* pandas sorts the reversed sequence ascending and reverses the result
\* (nargsort), so with a stable sort equal numbers keep their order.  numpy's
\* default sort is stable up to 16 elements; beyond that the order among equal
\* numbers is left to numpy, and the model keeps them in order there too.
InsertDesc(sorted, x) ==
    LET ge == {i \in 1..Len(sorted) : sorted[i][2] >= x[2]}
        k == Cardinality(ge)
    IN  SubSeq(sorted, 1, k) \o <<x>> \o SubSeq(sorted, k + 1, Len(sorted))

RECURSIVE SortDesc(_)
SortDesc(pairs) ==
    IF pairs = <<>> THEN <<>>
    ELSE InsertDesc(SortDesc(SubSeq(pairs, 1, Len(pairs) - 1)), pairs[Len(pairs)])

\* Variant of value_counts: the pairs in order of first appearance.
ValueCountsUnsorted(s) ==
    LET u == Unique(s) IN [i \in 1..Len(u) |-> <<u[i], Count(s, u[i])>>]

\* Series.value_counts(): <<value, count>> pairs, descending by count.
value_counts(s) ==
    LET u == Unique(s) IN SortDesc([i \in 1..Len(u) |-> <<u[i], Count(s, u[i])>>])

\* Variant of head: one entry short.
HeadDrop(s, n) == SubSeq(s, 1, (IF Len(s) < n THEN Len(s) ELSE n) - 1)

\* df.head(n)
head(s, n) == SubSeq(s, 1, IF Len(s) < n THEN Len(s) ELSE n)

\* df.drop_duplicates(subset=[c]): the first row of each value of c is kept.
RECURSIVE drop_duplicates(_, _)
drop_duplicates(rows, c) ==
    IF rows = <<>> THEN <<>>
    ELSE LET init == SubSeq(rows, 1, Len(rows) - 1)
             last == rows[Len(rows)]
         IN  IF \E j \in 1..Len(init) : init[j][c] = last[c]
             THEN drop_duplicates(init, c)
             ELSE Append(drop_duplicates(init, c), last)

\* groupby(by)[c].nunique() for one key.
NUnique(rows, by, key, c) ==
    Cardinality({rows[i][c] : i \in {j \in 1..Len(rows) : rows[j][by] = key}})

\* groupby(by)[c].sum() for one key.
GroupSum(rows, by, key, c) ==
    LET idx == {i \in 1..Len(rows) : rows[i][by] = key}
        RECURSIVE S(_)
        S(I) == IF I = {} THEN 0
                ELSE LET i == CHOOSE j \in I : TRUE IN rows[i][c] + S(I \ {i})
    IN  S(idx)

(***************************************************************************)
(* pd.to_numeric(..., errors='coerce')                                    *)
(***************************************************************************)
IsDigit(c) == IsIn(c, Digits)

DigitVal(c) == IndexIn(c, Digits) - 1

RECURSIVE DecVal(_)
DecVal(ds) ==
    IF ds = <<>> THEN 0 ELSE 10 * DecVal(SubSeq(ds, 1, Len(ds) - 1)) + DigitVal(ds[Len(ds)])

\* The parse of a cell: [ok, val] with val in tenths; ok = FALSE is NaN.
\* Accepted here: [-] digits [. digit?] and [-] . digit ; anything else among
\* the cells modelled ("x", "") is not a number.
to_numeric(cell) ==
    LET neg == cell # <<>> /\ Head(cell) = "-"
        body == IF neg THEN Tail(cell) ELSE cell
        dots == {i \in 1..Len(body) : body[i] = "."}
        dot == IF dots = {} THEN Len(body) + 1 ELSE CHOOSE i \in dots : TRUE
        ip == SubSeq(body, 1, dot - 1)
        fp == SubSeq(body, dot + 1, Len(body))
        wellFormed == /\ Cardinality(dots) <= 1
                      /\ \A i \in 1..Len(ip) : IsDigit(ip[i])
                      /\ \A i \in 1..Len(fp) : IsDigit(fp[i])
                      /\ Len(ip) + Len(fp) >= 1
                      /\ Len(fp) <= 1
        mag == 10 * DecVal(ip) + DecVal(fp)
    IN  IF wellFormed THEN [ok |-> TRUE, val |-> IF neg THEN 0 - mag ELSE mag]
        ELSE [ok |-> FALSE, val |-> 0]

\* .fillna(0) of the coerced cell.
CoerceOrZero(cell) == IF to_numeric(cell).ok THEN to_numeric(cell).val ELSE 0

\* Variant of ToInt: rounds half up.
ToIntRound(t) == (t + 5) \div 10

\* int(x) of a float kept in tenths: truncation toward zero.
ToInt(t) == IF t >= 0 THEN t \div 10 ELSE 0 - ((0 - t) \div 10)

(***************************************************************************)
(* /api/data : get_data                                                   *)
(***************************************************************************)
\* The columns of the main sheet that get_data consults.  The sheet also
\* carries "NAME OF STUDENT", which get_data never reads.
DataCols == {"Sport", "POINT", "GENDER", "RESULTS", "School", "SR. NO"}

\* request.args.get(...) of a parameter that was not sent (None); an empty
\* string is as falsy as None in  if filter_gender: .
NoArg == <<>>

NoResponse == [status |-> 0]

\* except Exception as e: return jsonify({"error": str(e)}), 500
Error(msg) == [status |-> 500, error |-> msg]

\* lines 76-79: the per-column clean-up, each guarded by the column's presence.
TypedRow(cols, r) ==
    [c \in DOMAIN r |->
        IF c \notin cols THEN r[c]
        ELSE CASE c = "Sport" -> Title(Strip(r[c]))
               [] c = "POINT" -> CoerceOrZero(r[c])
               [] c = "GENDER" -> Title(Strip(r[c]))
               [] c = "RESULTS" -> Strip(r[c])
               [] OTHER -> r[c]]

Typed(df) ==
    [columns |-> df.columns,
     rows |-> [i \in 1..Len(df.rows) |-> TypedRow(df.columns, df.rows[i])]]

\* df[df[c] == v]
RECURSIVE Where(_, _, _)
Where(rows, c, v) ==
    IF rows = <<>> THEN <<>>
    ELSE (IF rows[1][c] = v THEN <<rows[1]>> ELSE <<>>) \o Where(Tail(rows), c, v)

\* lines 86-90
KpiMetrics(cols, rows) ==
    [totalAchievements |-> Len(rows),
     totalPoints |-> IF "POINT" \in cols THEN ToInt(SumSeq(Column(rows, "POINT"))) ELSE 0,
     uniqueSports |-> IF "Sport" \in cols THEN Cardinality(Values(Column(rows, "Sport")))
                      ELSE 0]

\* lines 94-97 (School present, POINT present)
SchoolPoints(rows) ==
    LET keys == SortedKeys(Values(Column(rows, "School")))
        s_p == SortDesc([i \in 1..Len(keys) |->
                            <<keys[i], GroupSum(rows, "School", keys[i], "POINT")>>])
    IN  [i \in 1..Len(s_p) |-> [School |-> s_p[i][1], Points |-> s_p[i][2]]]

\* lines 101-103
SchoolData(rows) ==
    LET s_c == value_counts(Column(rows, "School")) IN
    [i \in 1..Len(s_c) |-> [School |-> s_c[i][1], Achievements |-> s_c[i][2]]]

LabelsSeries(pairs) ==
    [labels |-> [i \in 1..Len(pairs) |-> pairs[i][1]],
     series |-> [i \in 1..Len(pairs) |-> pairs[i][2]]]

EmptyLabelsSeries == [labels |-> <<>>, series |-> <<>>]

\* Variant of GenderData: no drop_duplicates.
GenderDataNoDedup(cols, rows) == LabelsSeries(value_counts(Column(rows, "GENDER")))

\* lines 107-109 (value_counts().reset_index() names its columns GENDER and
\* count, as pandas 2 does)
GenderData(cols, rows) ==
    LET uniq == IF "SR. NO" \in cols THEN drop_duplicates(rows, "SR. NO") ELSE rows
    IN  LabelsSeries(value_counts(Column(uniq, "GENDER")))

\* line 114-115
ResultCounts(rows) == value_counts(Column(rows, "RESULTS"))

TypeCount(pairs) == [i \in 1..Len(pairs) |-> [Type |-> pairs[i][1], Count |-> pairs[i][2]]]

\* line 122 (Sport present, SR. NO present)
SportCounts(rows) ==
    LET keys == SortedKeys(Values(Column(rows, "Sport"))) IN
    SortDesc([i \in 1..Len(keys) |-> <<keys[i], NUnique(rows, "Sport", keys[i], "SR. NO")>>])

SportParticipants(pairs) ==
    [i \in 1..Len(pairs) |-> [Sport |-> pairs[i][1], Participants |-> pairs[i][2]]]

\* Variant of PivotCell: counts rows (aggfunc='count').
PivotCellCount(rows, sport, gender) ==
    Cardinality({i \in 1..Len(rows) :
                    rows[i]["Sport"] = sport /\ rows[i]["GENDER"] = gender})

\* lines 128-134: pivot_table(index='Sport', columns='GENDER', values='SR. NO',
\* aggfunc='nunique').fillna(0), rows ordered by descending row total.
PivotCell(rows, sport, gender) ==
    Cardinality({rows[i]["SR. NO"] :
        i \in {j \in 1..Len(rows) : rows[j]["Sport"] = sport /\ rows[j]["GENDER"] = gender}})

SportByGender(rows) ==
    LET sports == SortedKeys(Values(Column(rows, "Sport")))
        genders == SortedKeys(Values(Column(rows, "GENDER")))
        total(s) == SumSeq([g \in 1..Len(genders) |-> PivotCell(rows, s, genders[g])])
        p == SortDesc([i \in 1..Len(sports) |-> <<sports[i], total(sports[i])>>])
    IN  [categories |-> [i \in 1..Len(p) |-> p[i][1]],
         series |-> [g \in 1..Len(genders) |->
                        [name |-> genders[g],
                         data |-> [i \in 1..Len(p) |-> PivotCell(rows, p[i][1], genders[g])]]]]

EmptyPivot == [categories |-> <<>>, series |-> <<>>]

\* achievement types shown in the bar chart: c.head(5)
TopAchievementTypes == 5

\* popular sports shown in the bar chart: s_c.head(6)
TopSports == 6

\* lines 86-146, on the typed and filtered frame.  Statements run in source
\* order, so the first missing column that is read unguarded decides the
\* exception.
Aggregates(cols, rows) ==
    IF "School" \in cols /\ "POINT" \notin cols THEN Error("'Column not found: POINT'")
    ELSE IF "Sport" \in cols /\ "SR. NO" \notin cols
         THEN Error("'Column not found: SR. NO'")
    ELSE
    LET c == ResultCounts(rows)
        s_c == SportCounts(rows)
    IN  [status |-> 200,
         kpiMetrics |-> KpiMetrics(cols, rows),
         schoolParticipation |-> IF "School" \in cols THEN SchoolData(rows) ELSE <<>>,
         schoolPoints |-> IF "School" \in cols THEN SchoolPoints(rows) ELSE <<>>,
         genderDistribution |->
             IF "GENDER" \in cols THEN GenderData(cols, rows) ELSE EmptyLabelsSeries,
         achievementTypesBar |->
             IF "RESULTS" \in cols THEN TypeCount(head(c, TopAchievementTypes)) ELSE <<>>,
         achievementTypesPie |->
             IF "RESULTS" \in cols THEN LabelsSeries(c) ELSE EmptyLabelsSeries,
         popularSportsBar |->
             IF "Sport" \in cols THEN SportParticipants(head(s_c, TopSports)) ELSE <<>>,
         sportsPie |-> IF "Sport" \in cols THEN LabelsSeries(s_c) ELSE EmptyLabelsSeries,
         sportByGender |->
             IF "Sport" \in cols /\ "GENDER" \in cols THEN SportByGender(rows)
             ELSE EmptyPivot]

\* lines 81-84: the two optional equality filters; df['GENDER'] / df['School']
\* is read without a presence check.
Filtered(df, filter_gender, filter_school) ==
    LET g == IF filter_gender # NoArg THEN Where(df.rows, "GENDER", filter_gender)
             ELSE df.rows
    IN  IF filter_school # NoArg THEN Where(g, "School", filter_school) ELSE g

\* The whole handler: the response to GET /api/data?GENDER=..&School=..
get_data(df, filter_gender, filter_school) ==
    IF DfEmpty(df) THEN Error("No data")
    ELSE IF filter_gender # NoArg /\ "GENDER" \notin df.columns THEN Error("'GENDER'")
    ELSE IF filter_school # NoArg /\ "School" \notin df.columns THEN Error("'School'")
    ELSE Aggregates(df.columns, Filtered(Typed(df), filter_gender, filter_school))

(***************************************************************************)
(* Inputs: the sheets and requests the handlers are run on                *)
(***************************************************************************)
t_chess == <<"c","h","e","s","s">>
t_Chess == <<"C","h","e","s","s">>
t_judo == <<" ","j","u","d","o"," ">>
t_boy == <<"b","o","y">>
t_Boy == <<"B","o","y">>
t_girl == <<"g","i","r","l">>
t_Girl == <<"G","i","r","l">>
t_Gold == <<"G","o","l","d">>
t_GoldSp == <<" ","G","o","l","d">>
t_Silver == <<"S","i","l","v","e","r">>
t_East == <<"E","a","s","t">>
t_West == <<"W","e","s","t">>
t_EastHigh == <<"E","a","s","t"," ","H","i","g","h">>
t_1 == <<"1">>
t_2 == <<"2">>
t_10 == <<"1","0">>
t_5 == <<"5">>
t_x == <<"x">>
t_2p5 == <<"2",".","5">>

Row(sport, point, gender, results, school, sr) ==
    [c \in DataCols |->
        CASE c = "Sport" -> sport
          [] c = "POINT" -> point
          [] c = "GENDER" -> gender
          [] c = "RESULTS" -> results
          [] c = "School" -> school
          [] c = "SR. NO" -> sr]

Row1 == Row(t_chess, t_10, t_boy, t_Gold, t_East, t_1)
Row2 == Row(t_chess, t_x, t_girl, t_Silver, t_West, t_2)
Row3 == Row(t_Chess, t_5, t_Boy, t_GoldSp, t_East, t_1)
Row4 == Row(t_judo, t_2p5, t_girl, t_Silver, t_West, t_1)

RowPool == {Row1, Row2, Row3, Row4}

\* Longest table drawn from RowPool.
MaxRows == 3

Tables == UNION {[1..n -> RowPool] : n \in 0..MaxRows}

\* The cells of the rows t under the columns C.
Project(t, C) == [i \in 1..Len(t) |-> [c \in C \cap DataCols |-> t[i][c]]]

\* Every sheet has the "NAME OF STUDENT" column (its cells are not modelled:
\* get_data never reads them) and any subset of the columns get_data reads.
MainSheets ==
    {[columns |-> C \cup {"NAME OF STUDENT"}, rows |-> Project(t, C)] :
        C \in SUBSET DataCols, t \in Tables}

GenderArgs == {NoArg, t_Boy, t_Girl}

SchoolArgs == {NoArg, t_East, t_EastHigh}

NoSheet == [columns |-> {}, rows |-> <<>>]

NoStaffSheet == [headers |-> <<>>, rows |-> <<>>]

NoRequest == [GENDER |-> NoArg, School |-> NoArg]

(***************************************************************************)
(* The main dashboard: one request against one fetched sheet              *)
(***************************************************************************)
Init ==
    /\ sheet \in MainSheets
    /\ request = NoRequest
    /\ staffSheet = NoStaffSheet
    /\ opsSheet = NoStaffSheet
    /\ dfColumns = <<>>
    /\ handler = "none"
    /\ response = NoResponse

\* GET /api/data.  The response cache in front of the handler returns what
\* the handler computed for the same query string, so it is not a separate
\* state here: the sheet does not change within a behaviour.
GetData ==
    /\ handler = "none"
    /\ \E filter_gender \in GenderArgs, filter_school \in SchoolArgs :
          /\ request' = [GENDER |-> filter_gender, School |-> filter_school]
          /\ response' = get_data(sheet, filter_gender, filter_school)
    /\ handler' = "get_data"
    /\ UNCHANGED <<sheet, staffSheet, opsSheet, dfColumns>>

Next == GetData

Spec == Init /\ [][Next]_vars

(***************************************************************************)
(* Header normalisation on its own: raw header rows of the staff sheet    *)
(***************************************************************************)
h_NameOfStudent == <<"N","a","m","e"," ","o","f"," ","S","t","u","d","e","n","t">>
h_SportName == <<"S","p","o","r","t"," ","N","a","m","e">>
h_NAME == <<" ","N","A","M","E"," ">>
h_StudentName == <<"S","t","u","d","e","n","t"," ","N","a","m","e">>
h_Department == <<"D","e","p","a","r","t","m","e","n","t">>
h_School == <<"S","c","h","o","o","l">>
h_Dept == <<"d","e","p","t">>
h_Gender == <<"G","e","n","d","e","r">>
h_Sex == <<"S","E","X">>
h_Game == <<"G","a","m","e">>
h_Points == <<"P","o","i","n","t","s"," ">>
h_SrNo == <<"S","r","."," ","N","o">>
h_EventCategory == <<"E","v","e","n","t"," ","C","a","t","e","g","o","r","y">>
h_Venue == <<" ","V","e","n","u","e">>
h_Rank == <<"R","a","n","k">>

HeaderPool ==
    {h_NameOfStudent, h_SportName, h_NAME, h_StudentName, h_Department, h_School, h_Dept, h_Gender,
     h_Sex, h_Game, h_Points, h_SrNo, h_EventCategory, h_Venue, h_Rank}

\* Longest raw header row drawn from HeaderPool.
MaxHeaders == 2

HeaderRows == UNION {[1..n -> HeaderPool] : n \in 0..MaxHeaders}

InitNorm ==
    /\ sheet = NoSheet
    /\ request = NoRequest
    /\ staffSheet \in {[headers |-> h, rows |-> <<>>] : h \in HeaderRows}
    /\ opsSheet = NoStaffSheet
    /\ dfColumns = <<>>
    /\ handler = "none"
    /\ response = NoResponse

\* df = normalize_columns(df): the column labels of the returned frame.
NormalizeColumns ==
    /\ handler = "none"
    /\ dfColumns' = normalize_columns(staffSheet.headers)
    /\ handler' = "normalize_columns"
    /\ UNCHANGED <<sheet, request, staffSheet, opsSheet, response>>

NextNorm == NormalizeColumns

SpecNorm == InitNorm /\ [][NextNorm]_vars

Normalized == handler = "normalize_columns"

\* C4 (as claimed): after normalize_columns at most one column carries each
\* canonical role name; later headers matching an already used role are
\* discarded.
C4_OneColumnPerRole ==
    Normalized =>
        \A role \in CanonicalCols :
            Cardinality({i \in 1..Len(dfColumns) : dfColumns[i] = role}) <= 1

RuleTable ==
    << [all |-> {kw_name, kw_student}, any |-> {kw_name}, role |-> NameCol],
       [all |-> {}, any |-> {kw_name}, role |-> NameCol],
       [all |-> {}, any |-> {kw_department, kw_school, kw_dept}, role |-> DepartmentCol],
       [all |-> {}, any |-> {kw_gender, kw_sex}, role |-> GenderCol],
       [all |-> {}, any |-> {kw_sport, kw_game}, role |-> SportCol],
       [all |-> {}, any |-> {kw_point}, role |-> PointsCol],
       [all |-> {kw_sr, kw_no}, any |-> {kw_sr}, role |-> SrNoCol],
       [all |-> {}, any |-> {kw_event, kw_category}, role |-> EventCol] >>

RuleMatches(rule, header) ==
    /\ \A k \in rule.all : Contains(k, Lower(header))
    /\ \E k \in rule.any : Contains(k, Lower(header))

ExpectedName(raw) ==
    LET header == Strip(raw)
        hits == {i \in 1..Len(RuleTable) : RuleMatches(RuleTable[i], header)}
    IN  IF hits = {} THEN header
        ELSE RuleTable[CHOOSE i \in hits : \A j \in hits : i <= j].role

\* C6: normalize_columns yields one output column per input header, in
\* order, named by the first rule of the priority order that matches the
\* trimmed header case-insensitively, or by the trimmed header itself.
C6_OneOutputPerHeader ==
    Normalized =>
        /\ Len(dfColumns) = Len(staffSheet.headers)
        /\ \A i \in 1..Len(dfColumns) : dfColumns[i] = ExpectedName(staffSheet.headers[i])

C6_Witness ==
    /\ Normalized
    /\ staffSheet.headers = <<h_Venue, h_Sex>>
    /\ dfColumns = <<Strip(h_Venue), GenderCol>>

(***************************************************************************)
(* Claims about get_data                                                  *)
(***************************************************************************)
Served == handler = "get_data"

Completed == Served /\ response.status = 200

\* The normalised text of a cell as the claims describe it.
NormalSport(r) == Title(Strip(r["Sport"]))

NormalGender(r) == Title(Strip(r["GENDER"]))

\* The filtered view of the claims: the indices of the sheet rows that
\* satisfy every filter of the request.
View ==
    {i \in 1..Len(sheet.rows) :
        /\ request.GENDER # NoArg => NormalGender(sheet.rows[i]) = request.GENDER
        /\ request.School # NoArg => sheet.rows[i]["School"] = request.School}

FiltersOnPresentColumns ==
    /\ request.GENDER # NoArg => "GENDER" \in sheet.columns
    /\ request.School # NoArg => "School" \in sheet.columns

\* What the result object holds for the aggregates whose column is absent.
AbsentAggregatesEmpty ==
    /\ "POINT" \notin sheet.columns => response.kpiMetrics.totalPoints = 0
    /\ "Sport" \notin sheet.columns =>
          /\ response.kpiMetrics.uniqueSports = 0
          /\ response.popularSportsBar = <<>>
          /\ response.sportsPie = EmptyLabelsSeries
          /\ response.sportByGender = EmptyPivot
    /\ "School" \notin sheet.columns =>
          /\ response.schoolParticipation = <<>>
          /\ response.schoolPoints = <<>>
    /\ "GENDER" \notin sheet.columns =>
          /\ response.genderDistribution = EmptyLabelsSeries
          /\ response.sportByGender = EmptyPivot
    /\ "RESULTS" \notin sheet.columns =>
          /\ response.achievementTypesBar = <<>>
          /\ response.achievementTypesPie = EmptyLabelsSeries

\* C1 (as claimed): on a non-empty table, whatever subset of Sport, POINT,
\* GENDER, RESULTS, School, SR. NO is absent, the request completes with the
\* normal result object, the aggregates of absent columns being empty or zero.
C1_MissingColumnNeverFatal ==
    (Served /\ Len(sheet.rows) > 0 /\ FiltersOnPresentColumns)
        => (response.status = 200 /\ AbsentAggregatesEmpty)

\* The result object of a view without rows.
AllAggregatesEmpty ==
    /\ response.kpiMetrics = [totalAchievements |-> 0, totalPoints |-> 0, uniqueSports |-> 0]
    /\ response.schoolParticipation = <<>>
    /\ response.schoolPoints = <<>>
    /\ response.genderDistribution = EmptyLabelsSeries
    /\ response.achievementTypesBar = <<>>
    /\ response.achievementTypesPie = EmptyLabelsSeries
    /\ response.popularSportsBar = <<>>
    /\ response.sportsPie = EmptyLabelsSeries
    /\ response.sportByGender = EmptyPivot

\* C2 (as claimed): the "No data" error is returned exactly when the fetched
\* table has no data row; a non-empty table whose filtered view is empty gets
\* the normal result with empty sequences and zero KPIs.
C2_NoDataOnlyForEmptyTable ==
    Served =>
        /\ (response = Error("No data")) <=> (Len(sheet.rows) = 0)
        /\ (Len(sheet.rows) > 0 /\ FiltersOnPresentColumns /\ View = {})
              => (response.status = 200 /\ AllAggregatesEmpty)

\* C3 (as claimed): a filter on a column the table lacks is a no-op: the
\* response is not an error and equals the response to the same request
\* without that filter.
C3_FilterOnAbsentColumnIsNoOp ==
    (Served /\ Len(sheet.rows) > 0 /\ ~FiltersOnPresentColumns)
        => /\ response.status = 200
           /\ response =
                get_data(sheet,
                         IF "GENDER" \in sheet.columns THEN request.GENDER ELSE NoArg,
                         IF "School" \in sheet.columns THEN request.School ELSE NoArg)

\* The identifiers of the filtered view and, for each, its first row.
ViewIds == {sheet.rows[i]["SR. NO"] : i \in View}

FirstRowOf(id) ==
    sheet.rows[CHOOSE i \in View :
                  /\ sheet.rows[i]["SR. NO"] = id
                  /\ \A j \in View : sheet.rows[j]["SR. NO"] = id => i <= j]

\* C7: with SR. NO present, genderDistribution counts the filtered view
\* deduplicated by identifier, first occurrence kept: each label counts the
\* identifiers whose first row has that gender, the series sums to the number
\* of distinct identifiers and never exceeds the row count; with SR. NO
\* absent every row counts and the series sums to the row count.
C7_GenderDistributionPerEntity ==
    (Completed /\ "GENDER" \in sheet.columns) =>
        LET g == response.genderDistribution
            total == SumSeq(g.series)
        IN  /\ Len(g.labels) = Len(g.series)
            /\ "SR. NO" \in sheet.columns =>
                  /\ total = Cardinality(ViewIds)
                  /\ total <= Cardinality(View)
                  /\ \A k \in 1..Len(g.labels) :
                        g.series[k] = Cardinality({id \in ViewIds :
                                          NormalGender(FirstRowOf(id)) = g.labels[k]})
            /\ "SR. NO" \notin sheet.columns => total = Cardinality(View)

C7_Witness ==
    /\ Completed
    /\ {"GENDER", "SR. NO"} \subseteq sheet.columns
    /\ Cardinality(ViewIds) < Cardinality(View)
    /\ SumSeq(response.genderDistribution.series) = Cardinality(ViewIds)

NoRepeats(s) == \A i, j \in 1..Len(s) : s[i] = s[j] => i = j

\* C8: each cell of sportByGender is the number of distinct identifiers among
\* the rows of the view with that normalised sport and normalised gender, 0
\* for a combination without rows; rows (chess, boy, 1), (chess, girl, 2),
\* (Chess, Boy, 1) give the single sport row Chess with Boy = 1 and Girl = 1,
\* two participants in all.
C8_PivotCountsDistinctIds ==
    (Completed /\ {"Sport", "GENDER"} \subseteq sheet.columns) =>
        LET p == response.sportByGender IN
        /\ NoRepeats(p.categories)
        /\ Values(p.categories) = {NormalSport(sheet.rows[i]) : i \in View}
        /\ NoRepeats([g \in 1..Len(p.series) |-> p.series[g].name])
        /\ {p.series[g].name : g \in 1..Len(p.series)}
              = {NormalGender(sheet.rows[i]) : i \in View}
        /\ \A g \in 1..Len(p.series) :
              /\ Len(p.series[g].data) = Len(p.categories)
              /\ \A k \in 1..Len(p.categories) :
                    p.series[g].data[k] =
                        Cardinality({sheet.rows[i]["SR. NO"] :
                            i \in {j \in View :
                                /\ NormalSport(sheet.rows[j]) = p.categories[k]
                                /\ NormalGender(sheet.rows[j]) = p.series[g].name}})
        /\ (sheet.rows = Project(<<Row1, Row2, Row3>>, sheet.columns)
                /\ request = NoRequest) =>
              /\ p = [categories |-> <<t_Chess>>,
                      series |-> <<[name |-> t_Boy, data |-> <<1>>],
                                   [name |-> t_Girl, data |-> <<1>>]>>]
              /\ SumSeq([g \in 1..Len(p.series) |-> SumSeq(p.series[g].data)]) = 2

C8_Witness ==
    /\ Completed
    /\ {"Sport", "GENDER"} \subseteq sheet.columns
    /\ sheet.rows = Project(<<Row1, Row2, Row3>>, sheet.columns)
    /\ request = NoRequest
    /\ response.sportByGender.categories = <<t_Chess>>

\* The score cells of the filtered view, in row order.
RECURSIVE SetToSeq(_)
SetToSeq(S) ==
    IF S = {} THEN <<>>
    ELSE LET m == CHOOSE x \in S : \A y \in S : x <= y IN <<m>> \o SetToSeq(S \ {m})

ViewScores == LET idx == SetToSeq(View) IN [k \in 1..Len(idx) |-> sheet.rows[idx[k]]["POINT"]]

\* The sum, in tenths, of the score cells that parse; the others add 0.
ParseableSum ==
    SumSeq([k \in 1..Len(ViewScores) |->
               IF to_numeric(ViewScores[k]).ok THEN to_numeric(ViewScores[k]).val ELSE 0])

\* C10 (as claimed): totalPoints equals the sum of the parseable score cells
\* of the filtered view, and is 0 when the score column is absent.
C10_TotalPointsIsSum ==
    Completed =>
        IF "POINT" \in sheet.columns
        THEN 10 * response.kpiMetrics.totalPoints = ParseableSum
        ELSE response.kpiMetrics.totalPoints = 0

\* C10 (amended): a score cell that does not parse adds 0 and never aborts
\* the request; totalPoints is the sum of the parseable score cells of the
\* filtered view truncated toward zero to an integer (scores "10", "x", "5"
\* give 15), and is 0 when the score column is absent.
C10_TotalPointsIsTruncatedSum ==
    /\ (Served /\ Len(sheet.rows) > 0 /\ DataCols \subseteq sheet.columns)
          => response.status = 200
    /\ Completed =>
          LET total == response.kpiMetrics.totalPoints IN
          /\ "POINT" \notin sheet.columns => total = 0
          /\ "POINT" \in sheet.columns =>
                /\ ParseableSum >= 0 =>
                      (10 * total <= ParseableSum /\ ParseableSum < 10 * (total + 1))
                /\ ParseableSum < 0 =>
                      (10 * total >= ParseableSum /\ ParseableSum > 10 * (total - 1))
                /\ ViewScores = <<t_10, t_x, t_5>> => total = 15

C10_Witness ==
    /\ Completed
    /\ "POINT" \in sheet.columns
    /\ ViewScores = <<t_10, t_x, t_5>>
    /\ response.kpiMetrics.totalPoints = 15

(***************************************************************************)
(* /api/staff_data : get_staff_data                                       *)
(***************************************************************************)
\* The frame normalize_columns returns, rows keyed by the new labels.  The
\* staff sheets modelled have pairwise distinct labels after normalisation.
StaffFrame(sh) ==
    LET cols == normalize_columns(sh.headers) IN
    [columns |-> Values(cols),
     rows |-> [i \in 1..Len(sh.rows) |->
                  [c \in Values(cols) |-> sh.rows[i][CHOOSE k \in 1..Len(cols) : cols[k] = c]]]]

\* lines 284-285
StaffTypedRow(r) ==
    [c \in DOMAIN r |->
        IF c = SportCol \/ c = GenderCol THEN Title(Strip(r[c])) ELSE r[c]]

\* departments kept in the two department series: .head(25)
TopDepartments == 25

\* lines 295-297
DeptData(rows) ==
    LET d_counts == head(value_counts(Column(rows, DepartmentCol)), TopDepartments) IN
    [categories |-> [i \in 1..Len(d_counts) |-> d_counts[i][1]],
     series |-> [i \in 1..Len(d_counts) |-> d_counts[i][2]]]

\* lines 300-302
DeptPoints(rows) ==
    LET pts == [i \in 1..Len(rows) |->
                   [rows[i] EXCEPT ![PointsCol] = CoerceOrZero(rows[i][PointsCol])]]
        keys == SortedKeys(Values(Column(pts, DepartmentCol)))
        d_points == head(SortDesc([i \in 1..Len(keys) |->
                        <<keys[i], GroupSum(pts, DepartmentCol, keys[i], PointsCol)>>]),
                         TopDepartments)
    IN  [categories |-> [i \in 1..Len(d_points) |-> d_points[i][1]],
         series |-> [i \in 1..Len(d_points) |-> d_points[i][2]]]

EmptyCategories == [categories |-> <<>>, series |-> <<>>]

\* lines 286-289; sum() skips the cells coerced to NaN.
StaffKpi(cols, rows) ==
    [totalAchievements |-> Len(rows),
     totalPoints |->
        IF PointsCol \in cols
        THEN ToInt(SumSeq([i \in 1..Len(rows) |-> CoerceOrZero(rows[i][PointsCol])]))
        ELSE 0]

\* The whole handler: the response to GET /api/staff_data
get_staff_data(sh) ==
    IF Len(sh.rows) = 0 \/ Len(sh.headers) = 0
    THEN Error("No data in Staff Summit sheet")
    ELSE
    LET df == StaffFrame(sh)
        cols == df.columns
        rows == [i \in 1..Len(df.rows) |-> StaffTypedRow(df.rows[i])]
        id_col == IF SrNoCol \in cols THEN SrNoCol ELSE NameCol
    IN  IF id_col \notin cols THEN Error("Index(['Name'], dtype='object')")
        ELSE IF GenderCol \notin cols THEN Error("'Gender'")
        ELSE
        [status |-> 200,
         kpi |-> StaffKpi(cols, rows),
         gender |->
            LabelsSeries(value_counts(Column(drop_duplicates(rows, id_col), GenderCol))),
         department |->
            IF DepartmentCol \in cols THEN DeptData(rows) ELSE EmptyCategories,
         department_points |->
            IF DepartmentCol \in cols /\ PointsCol \in cols THEN DeptPoints(rows)
            ELSE EmptyCategories,
         sports |->
            IF SportCol \in cols THEN LabelsSeries(value_counts(Column(rows, SportCol)))
            ELSE EmptyLabelsSeries]

(***************************************************************************)
(* Sheets with many categories, for the truncated series                  *)
(***************************************************************************)
\* The k-th one-letter label: A..Z, then a..z.
Label(k) == IF k <= 26 THEN <<UpperCase[k]>> ELSE <<LowerCase[k - 26]>>

\* The k-th one-letter lower-case label.
LowerLabel(k) == <<LowerCase[k]>>

\* Most distinct departments of a staff sheet.
MaxStaffDepts == 27

\* Most distinct achievement types / sports of a main sheet.
MaxTopLabels == 8

\* Most rows that repeat a label already used.
MaxExtraRows == 2

\* The label index of each row: d rows with the labels 1..d, then m rows
\* that repeat the last e labels in turn.
Pattern(d, m, e) == [i \in 1..(d + m) |-> IF i <= d THEN i ELSE d - ((i - d - 1) % e)]

Patterns(maxLabels) ==
    UNION {{Pattern(d, m, e) : m \in 0..MaxExtraRows,
                               e \in 1..(IF d < MaxExtraRows THEN d ELSE MaxExtraRows)} :
              d \in 1..maxLabels}

DigitsOf(n) == IF n < 10 THEN <<Digits[n + 1]>> ELSE <<Digits[(n \div 10) + 1], Digits[(n % 10) + 1]>>

PointCells == <<t_10, t_x, t_5, t_2p5>>

\* Main sheets with every column: row i has the achievement type Label(p[i]),
\* the sport LowerLabel(p[i]) and the identifier (i - 1) \div q.
TopSheets ==
    {[columns |-> DataCols \cup {"NAME OF STUDENT"},
      rows |-> [i \in 1..Len(p) |->
                  Row(LowerLabel(p[i]), PointCells[(i % 4) + 1],
                      IF i % 2 = 0 THEN t_boy ELSE t_Girl,
                      Label(p[i]), IF i % 3 = 0 THEN t_East ELSE t_West,
                      DigitsOf((i - 1) \div q))]] :
        p \in Patterns(MaxTopLabels), q \in 1..2}

StaffHeaders ==
    <<h_SrNo, h_NAME, h_Department, h_Sex, h_Game, h_Points, h_EventCategory, h_Rank>>

\* StaffHeaders without its k-th header (k = 0: all of them).
Without(s, k) == IF k = 0 THEN s ELSE SubSeq(s, 1, k - 1) \o SubSeq(s, k + 1, Len(s))

StaffCell(header, i, p, o) ==
    CASE header = h_SrNo -> DigitsOf((i - 1) \div 2)
      [] header = h_NAME -> Label((i % 3) + 1)
      [] header = h_Department -> Label(p[i])
      [] header = h_Sex -> IF i % 2 = 0 THEN t_boy ELSE t_Girl
      [] header = h_Game -> IF i % 3 = 0 THEN t_judo ELSE t_chess
      [] header = h_Points -> PointCells[((i + o) % 4) + 1]
      [] OTHER -> t_x

\* Staff sheets: row i works in department Label(p[i]).
TopStaffSheets ==
    {[headers |-> Without(StaffHeaders, k),
      rows |-> [i \in 1..Len(p) |->
                  [j \in 1..Len(Without(StaffHeaders, k)) |->
                      StaffCell(Without(StaffHeaders, k)[j], i, p, o)]]] :
        p \in Patterns(MaxStaffDepts), k \in 0..Len(StaffHeaders), o \in 0..1}

InitTopN ==
    /\ \/ sheet \in TopSheets /\ staffSheet = NoStaffSheet
       \/ sheet = NoSheet /\ staffSheet \in TopStaffSheets
    /\ opsSheet = NoStaffSheet
    /\ request = NoRequest
    /\ dfColumns = <<>>
    /\ handler = "none"
    /\ response = NoResponse

\* GET /api/staff_data (cached like /api/data; the sheet does not change).
GetStaffData ==
    /\ handler = "none"
    /\ response' = get_staff_data(staffSheet)
    /\ dfColumns' = IF Len(staffSheet.rows) = 0 \/ Len(staffSheet.headers) = 0 THEN <<>>
                    ELSE normalize_columns(staffSheet.headers)
    /\ handler' = "get_staff_data"
    /\ UNCHANGED <<sheet, request, staffSheet, opsSheet>>

NextTopN == GetData \/ GetStaffData

SpecTopN == InitTopN /\ [][NextTopN]_vars

(***************************************************************************)
(* Claims about the truncated series                                      *)
(***************************************************************************)
Min(a, b) == IF a < b THEN a ELSE b

Descending(s) == \A i \in 1..(Len(s) - 1) : s[i] >= s[i + 1]

\* labels / numbers are the first n entries of the pairs of sorted, in order.
IsPrefixOf(labels, numbers, sorted, n) ==
    /\ Len(labels) = Min(n, Len(sorted))
    /\ Len(numbers) = Len(labels)
    /\ Len(labels) <= n
    /\ \A i \in 1..Len(labels) : labels[i] = sorted[i][1] /\ numbers[i] = sorted[i][2]

Pairs(ls) == [i \in 1..Len(ls.labels) |-> <<ls.labels[i], ls.series[i]>>]

StaffDone == handler = "get_staff_data" /\ response.status = 200

C9_StaffWitness ==
    /\ StaffDone
    /\ DepartmentCol \in Values(dfColumns)
    /\ Cardinality(Values(Column(StaffFrame(staffSheet).rows, DepartmentCol))) > 25
    /\ Len(response.department.categories) = 25
    /\ Len(response.department_points.categories) = 25

(***************************************************************************)
(* /api/operations : get_operations_data                                  *)
(***************************************************************************)
o_Month == <<"M","o","n","t","h">>
o_Games == <<"G","a","m","e","s">>
o_utilized == <<" ","u","t","i","l","i","z","e","d"," ">>
o_Capacity == <<"C","a","p","a","c","i","t","y","_","m","o","n","t","h">>
o_Jan == <<"J","a","n">>
o_Feb == <<"F","e","b">>
o_Mar == <<"M","a","r">>
o_Gym == <<"G","y","m">>
o_Pool == <<"P","o","o","l">>
o_85pc == <<"8","5","%">>
o_120 == <<"1","2","0">>
o_1c200 == <<"1",",","2","0","0">>
o_12p5pc == <<"1","2",".","5","%">>
o_100 == <<"1","0","0">>
o_1c000 == <<"1",",","0","0","0">>
o_empty == <<>>

\* The column labels after df.columns.str.strip().
MonthCol == Strip(o_Month)
GamesCol == Strip(o_Games)
UtilizedCol == Strip(o_utilized)
CapacityCol == Strip(o_Capacity)

\* required = ['Games', 'utilized', 'Capacity_month']
RequiredCols == {GamesCol, UtilizedCol, CapacityCol}

\* str.replace(ch, '') : every occurrence of the character removed.
RECURSIVE Remove(_, _)
Remove(s, ch) ==
    IF s = <<>> THEN <<>>
    ELSE (IF Head(s) = ch THEN <<>> ELSE <<Head(s)>>) \o Remove(Tail(s), ch)

\* line 257: '%' and ',' removed, then to_numeric(errors='coerce').fillna(0)
Percentage(cell) == CoerceOrZero(Remove(Remove(cell, "%"), ","))

\* Variant of Unused: the difference, not clamped.
UnusedNoClamp(capacity, used) == capacity - used

\* lines 259-260: df['unused'] = (Capacity_month - utilized).apply(max(x, 0))
Unused(capacity, used) == IF capacity - used > 0 THEN capacity - used ELSE 0

\* The frame after line 245, rows keyed by the stripped labels.  The sheets
\* modelled have pairwise distinct labels after stripping.
OpsFrame(sh) ==
    LET cols == [i \in 1..Len(sh.headers) |-> Strip(sh.headers[i])] IN
    [columns |-> Values(cols),
     rows |-> [i \in 1..Len(sh.rows) |->
                  [c \in Values(cols) |-> sh.rows[i][CHOOSE k \in 1..Len(cols) : cols[k] = c]]]]

EmptyOperations == [status |-> 200, facilities |-> <<>>, used |-> <<>>,
                    unused |-> <<>>, totals |-> <<>>]

\* The whole handler: the response to GET /api/operations?month=..
get_operations_data(sh, selected_month) ==
    IF Len(sh.rows) = 0 \/ Len(sh.headers) = 0 THEN EmptyOperations
    ELSE
    LET df == OpsFrame(sh)
        rows == IF selected_month # NoArg /\ MonthCol \in df.columns
                THEN Where(df.rows, MonthCol, selected_month) ELSE df.rows
        used == [i \in 1..Len(rows) |-> Percentage(rows[i][UtilizedCol])]
        totals == [i \in 1..Len(rows) |-> Percentage(rows[i][CapacityCol])]
    IN  IF ~(RequiredCols \subseteq df.columns) THEN Error("Missing Columns in Sheet2")
        ELSE [status |-> 200,
              facilities |-> Column(rows, GamesCol),
              used |-> used,
              unused |-> [i \in 1..Len(rows) |-> Unused(totals[i], used[i])],
              totals |-> totals]

OpsHeaders == <<o_Month, o_Games, o_utilized, o_Capacity>>

OpsRowPool ==
    {<<o_Jan, o_Gym, o_85pc, o_100>>,
     <<o_Jan, o_Pool, o_120, o_100>>,
     <<o_Feb, o_Gym, o_1c200, o_1c000>>,
     <<o_Feb, o_Pool, t_x, o_empty>>,
     <<o_Jan, o_Gym, o_12p5pc, t_x>>}

\* Longest facility table drawn from OpsRowPool.
MaxOpsRows == 3

\* Facility sheets: OpsHeaders, or OpsHeaders without one column.
OpsSheets ==
    {[headers |-> Without(OpsHeaders, k),
      rows |-> [i \in 1..Len(t) |-> Without(t[i], k)]] :
        k \in 0..Len(OpsHeaders), t \in UNION {[1..n -> OpsRowPool] : n \in 0..MaxOpsRows}}

MonthArgs == {NoArg, o_Jan, o_Mar}

InitOps ==
    /\ sheet = NoSheet
    /\ request = NoRequest
    /\ staffSheet = NoStaffSheet
    /\ opsSheet \in OpsSheets
    /\ dfColumns = <<>>
    /\ handler = "none"
    /\ response = NoResponse

\* GET /api/operations (cached by query string; the sheet does not change).
GetOperationsData ==
    /\ handler = "none"
    /\ \E selected_month \in MonthArgs :
          /\ request' = [month |-> selected_month]
          /\ response' = get_operations_data(opsSheet, selected_month)
    /\ handler' = "get_operations_data"
    /\ UNCHANGED <<sheet, staffSheet, opsSheet, dfColumns>>

NextOps == GetOperationsData

SpecOps == InitOps /\ [][NextOps]_vars

(***************************************************************************)
(* Claims about get_operations_data                                       *)
(***************************************************************************)
Reported == handler = "get_operations_data" /\ response.status = 200

\* The position of the raw header that strips to label, 0 when there is none.
OpsColumn(label) ==
    LET hits == {k \in 1..Len(opsSheet.headers) : Strip(opsSheet.headers[k]) = label}
    IN  IF hits = {} THEN 0 ELSE CHOOSE k \in hits : TRUE

\* The month-filtered row set: the sheet rows, in order, of the selected
\* month when a month is selected and the sheet has a Month column.
OpsView ==
    SetToSeq({i \in 1..Len(opsSheet.rows) :
                (request.month # NoArg /\ OpsColumn(MonthCol) # 0)
                    => opsSheet.rows[i][OpsColumn(MonthCol)] = request.month})

\* C11: for every returned row unused = max(capacity - used, 0) on the
\* coerced Capacity_month and utilized values, hence never negative, also
\* when used exceeds capacity; facilities, used, unused and totals all have
\* the length of the month-filtered row set.
C11_UnusedIsClampedRemainder ==
    Reported =>
        /\ Len(response.facilities) = Len(OpsView)
        /\ Len(response.used) = Len(OpsView)
        /\ Len(response.unused) = Len(OpsView)
        /\ Len(response.totals) = Len(OpsView)
        /\ \A k \in 1..Len(OpsView) :
              LET row == opsSheet.rows[OpsView[k]]
                  capacity == Percentage(row[OpsColumn(CapacityCol)])
                  used == Percentage(row[OpsColumn(UtilizedCol)])
              IN  /\ response.totals[k] = capacity
                  /\ response.used[k] = used
                  /\ response.facilities[k] = row[OpsColumn(GamesCol)]
                  /\ response.unused[k] >= 0
                  /\ response.unused[k] >= capacity - used
                  /\ response.unused[k] = 0 \/ response.unused[k] = capacity - used

\* A returned row whose use exceeds its capacity.
C11_Witness ==
    /\ Reported
    /\ \E k \in 1..Len(response.unused) :
          /\ response.used[k] > response.totals[k]
          /\ response.totals[k] > 0
          /\ response.unused[k] = 0

(***************************************************************************)
(* Claims about the untruncated frequency aggregates of get_data          *)
(***************************************************************************)
\* A frequency aggregate, as labels and counts, against the cells it counts:
\* the counts add up to the number of cells, no label repeats, the labels
\* are the distinct cells, each count is the number of cells equal to its
\* label, and the counts descend.
IsFrequencyTable(labels, counts, cells) ==
    /\ Len(labels) = Len(counts)
    /\ SumSeq(counts) = Len(cells)
    /\ NoRepeats(labels)
    /\ Values(labels) = Values(cells)
    /\ \A i \in 1..Len(labels) :
          counts[i] = Cardinality({k \in 1..Len(cells) : cells[k] = labels[i]})
    /\ Descending(counts)

\* The cells of a column over the rows of the view, in sheet order.
ViewCells(c) ==
    LET idx == SetToSeq(View) IN [k \in 1..Len(idx) |-> sheet.rows[idx[k]][c]]

ViewResults ==
    LET cells == ViewCells("RESULTS") IN [k \in 1..Len(cells) |-> Strip(cells[k])]

\* C12: for every filtered table, the counts of schoolParticipation (over
\* School) and of achievementTypesPie (over RESULTS) sum to the row count of
\* the filtered table, each distinct value is a label exactly once, and the
\* entries are in descending order of count.
C12_FrequencyAggregatesPartitionRows ==
    Completed =>
        /\ "School" \in sheet.columns =>
              LET sp == response.schoolParticipation IN
              IsFrequencyTable([i \in 1..Len(sp) |-> sp[i].School],
                               [i \in 1..Len(sp) |-> sp[i].Achievements],
                               ViewCells("School"))
        /\ "RESULTS" \in sheet.columns =>
              IsFrequencyTable(response.achievementTypesPie.labels,
                               response.achievementTypesPie.series,
                               ViewResults)

\* Both aggregates computed with two labels each, the more frequent one
\* appearing later in the table than the less frequent one.
C12_Witness ==
    /\ Completed
    /\ {"School", "RESULTS"} \subseteq sheet.columns
    /\ Len(response.schoolParticipation) = 2
    /\ response.schoolParticipation[1].Achievements > response.schoolParticipation[2].Achievements
    /\ response.schoolParticipation[1].School # ViewCells("School")[1]
    /\ response.achievementTypesPie.series = <<2, 1>>
    /\ response.achievementTypesPie.labels[1] # ViewResults[1]

====
